---- MODULE Spec2Model ----
(***************************************************************************)
(* Model of whclient.Client (src/whclient/client.go): the tunnel client's  *)
(* connection / reconnection state machine.                                *)
(*                                                                         *)
(* Goroutines modelled: callers of Accept, callers of Close, the cleanup   *)
(* goroutine spawned by Close, and the reconnect goroutines spawned by     *)
(* Accept.  The mutex c.m, the channel c.closed, the session pointer, the  *)
(* lifecycle state and the stored accept error are the shared state.       *)
(***************************************************************************)
EXTENDS Naturals, FiniteSets, TLC

\* ------------------------------------------------------------------ bounds

\* Goroutines that call Accept and Close concurrently.
Accepters == {"a1", "a2"}
Closers == {"c1", "c2"}

\* Transports the relay will hand out over a run (the first one is the
\* session New() installed).
MaxSessions == 3

\* Retry policy of the working configuration (c.retry), in clock ticks.
InitialDelay == 1
MaxElapsedTime == 2

\* How far the clock may run past the budget while the retry loop is
\* waiting to be scheduled.
Slack == 1

\* ------------------------------------------------- constants of the program

stateRunning == "Running"
stateBroken == "Broken"
stateClosed == "Closed"

ErrNil == "nil"
ErrClientClosed == "ClientClosed"
ErrClientReconnecting == "Reconnecting"
ErrRetryFailed == "RetryFailed"
ErrRetryTimedOut == "RetryTimedOut"
ErrAuthFailed == "AuthFailed"

\* Outcomes of websocket.DefaultDialer.Dial: the response status (0: no
\* response at all) and whether the handshake succeeded (err == nil), which
\* needs the 101 answer.
Statuses == {0, 101, 200, 401, 404, 503}
DialOutcomes == {o \in [status : Statuses, ok : BOOLEAN] : o.ok => o.status = 101}

\* RetryConfig.nextDelay: the delay grows by a fixed factor up to a ceiling.
Multiplier == 2
MaxDelay == 2
nextDelay(d) == IF d * Multiplier > MaxDelay THEN MaxDelay ELSE d * Multiplier

\* shouldRetry treating only the 2xx class as final: a 4xx answer is retried.
shouldRetry_Only2xx(status) ==
    IF status = 0 THEN TRUE
    ELSE IF status \div 100 = 2 THEN FALSE
    ELSE TRUE

shouldRetry(status) ==
    IF status = 0 THEN TRUE
    ELSE IF status \div 100 = 4 \/ status \div 100 = 2 THEN FALSE
    ELSE TRUE

isAuthError(status) ==
    IF status = 0 THEN FALSE ELSE status = 401

\* ------------------------------------------------------------------- state

VARIABLES
    m,           \* c.m: "free", "reconnect", or the Accept caller holding it
    state,       \* c.state
    acceptErr,   \* c.acceptErr
    session,     \* c.session: id of the current session, 0 for nil
    url,         \* c.url: id of the dial whose URL is stored
    closed,      \* number of close(c.closed) executed; 2 is the runtime panic
    sessCloses,  \* per session: number of Session.Close() calls received
    dialSeq,     \* transports created so far
    usable,      \* util.IsTokenUsable(c.token)
    cfg,         \* generation of the working configuration (setConfig calls)
    apc,         \* Accept callers: "idle", "lock", "accepting"
    accSess,     \* receiver of the pending c.session.Accept() call
    aStart,      \* what held when the caller's current/last Accept started
    aRet,        \* result of the caller's last Accept
    cpc,         \* Close callers: "idle", "default"
    closeReturned, \* some Close call has returned
    cleanup,     \* Close's goroutine: "none", "pending", "done"
    rPending,    \* reconnect goroutines dispatched and not yet holding c.m
    rpc,         \* the reconnect goroutine holding c.m: position
    conn,        \* connectWithRetry's result: transport id (0: none)
    connErr,     \* connectWithRetry's result: error
    connStatus,  \* status of the last Dial of connectWithRetry (0: none)
    elapsed,     \* retryConn: time since the timers were started
    backoffAt,   \* retryConn: time at which the backoff timer fires
    currentDelay, \* retryConn: currentDelay
    dials,       \* connectWithRetry: Dial calls made in this invocation
    connUrl,     \* connectWithRetry's result: id of the dial whose URL it is
    cfgFailed,   \* connectWithRetry: c.configurer() returned an error
    nilDeref     \* a method was called through a nil c.session

vars == <<m, state, acceptErr, session, url, closed, sessCloses, dialSeq,
          usable, cfg, apc, accSess, aStart, aRet, cpc, closeReturned,
          cleanup, rPending, rpc, conn, connErr, connStatus, elapsed,
          backoffAt, currentDelay, dials, connUrl, cfgFailed, nilDeref>>

clientVars == <<m, state, acceptErr, session, url, sessCloses>>
acceptVars == <<apc, accSess, aStart, aRet>>
closeVars == <<closed, cpc, closeReturned, cleanup>>
connVars == <<dialSeq, usable, cfg, conn, connErr, connStatus, elapsed,
              backoffAt, currentDelay, dials, connUrl, cfgFailed>>

NumCfg == 2

NoRet == [kind |-> "none", sess |-> 0, current |-> TRUE]
NoStart == [inRepair |-> FALSE, afterFail |-> FALSE, afterClose |-> FALSE]

\* An unrecovered panic (close of a closed channel) ends the process.
Panicked == closed >= 2 \/ nilDeref

\* A repair has been dispatched and has not finished.
RepairInFlight == rPending > 0 \/ rpc # "idle"

\* The last repair failed and left the client Broken with its error.
RepairFailed ==
    state = stateBroken /\ acceptErr = ErrRetryFailed /\ ~RepairInFlight

\* State after New() returned: one dial succeeded, its session and URL are
\* installed, the zero values of state and acceptErr are in place.
Init ==
    /\ m = "free"
    /\ state = stateRunning
    /\ acceptErr = ErrNil
    /\ session = 1
    /\ url = 1
    /\ closed = 0
    /\ sessCloses = [s \in 1..MaxSessions |-> 0]
    /\ dialSeq = 1
    /\ usable \in BOOLEAN
    /\ cfg = 0
    /\ apc = [a \in Accepters |-> "idle"]
    /\ accSess = [a \in Accepters |-> 0]
    /\ aStart = [a \in Accepters |-> NoStart]
    /\ aRet = [a \in Accepters |-> NoRet]
    /\ cpc = [c \in Closers |-> "idle"]
    /\ closeReturned = FALSE
    /\ cleanup = "none"
    /\ rPending = 0
    /\ rpc = "idle"
    /\ conn = 0
    /\ connErr = ErrNil
    /\ connStatus = 0
    /\ elapsed = 0
    /\ backoffAt = 0
    /\ currentDelay = 0
    /\ dials = 0
    /\ connUrl = 0
    /\ cfgFailed = FALSE
    /\ nilDeref = FALSE

\* ------------------------------------------------------------------ Accept

\* wsmux Session.Accept: a closed session only reports failure; an open one
\* delivers a stream or reports failure.
SessionAcceptResults(s) ==
    IF sessCloses[s] > 0 THEN {"err"} ELSE {"stream", "err"}

\* AcceptStart without the select on c.closed: the call goes straight to the
\* mutex.
AcceptStart_NoClosedCheck(a) ==
    /\ ~Panicked
    /\ apc[a] = "idle"
    /\ aStart' = [aStart EXCEPT ![a] =
                    [inRepair |-> state = stateBroken /\ RepairInFlight,
                     afterFail |-> RepairFailed,
                     afterClose |-> closeReturned]]
    /\ aRet' = [aRet EXCEPT ![a] = NoRet]
    /\ apc' = [apc EXCEPT ![a] = "lock"]
    /\ UNCHANGED <<clientVars, closeVars, connVars, accSess, rPending, rpc, nilDeref>>

\* Accept, the select on c.closed: fail fast once shutdown was signalled.
AcceptStart(a) ==
    /\ ~Panicked
    /\ apc[a] = "idle"
    /\ aStart' = [aStart EXCEPT ![a] =
                    [inRepair |-> state = stateBroken /\ RepairInFlight,
                     afterFail |-> RepairFailed,
                     afterClose |-> closeReturned]]
    /\ IF closed >= 1
       THEN /\ aRet' = [aRet EXCEPT ![a] = [NoRet EXCEPT !.kind = ErrClientClosed]]
            /\ apc' = apc
       ELSE /\ aRet' = [aRet EXCEPT ![a] = NoRet]
            /\ apc' = [apc EXCEPT ![a] = "lock"]
    /\ UNCHANGED <<clientVars, closeVars, connVars, accSess, rPending, rpc, nilDeref>>

\* AcceptLock releasing c.m before the call of c.session.Accept() instead of
\* on return.
AcceptLock_EarlyUnlock(a) ==
    /\ ~Panicked
    /\ apc[a] = "lock"
    /\ m = "free"
    /\ IF state = stateBroken \/ state = stateClosed
       THEN /\ aRet' = [aRet EXCEPT ![a] = [NoRet EXCEPT !.kind = acceptErr]]
            /\ apc' = [apc EXCEPT ![a] = "idle"]
            /\ UNCHANGED <<m, accSess, nilDeref>>
       ELSE IF session = 0
       THEN /\ nilDeref' = TRUE
            /\ UNCHANGED <<m, accSess, aRet, apc>>
       ELSE /\ accSess' = [accSess EXCEPT ![a] = session]
            /\ apc' = [apc EXCEPT ![a] = "accepting"]
            /\ UNCHANGED <<m, aRet, nilDeref>>
    /\ UNCHANGED <<state, acceptErr, session, url, sessCloses, closeVars,
                   connVars, aStart, rPending, rpc>>

\* Accept, c.m.Lock() and the state test: not Running returns the stored
\* error at once; Running enters c.session.Accept() with c.m held.
AcceptLock(a) ==
    /\ ~Panicked
    /\ apc[a] = "lock"
    /\ m = "free"
    /\ IF state = stateBroken \/ state = stateClosed
       THEN /\ aRet' = [aRet EXCEPT ![a] = [NoRet EXCEPT !.kind = acceptErr]]
            /\ apc' = [apc EXCEPT ![a] = "idle"]
            /\ UNCHANGED <<m, accSess, nilDeref>>
       ELSE IF session = 0
       THEN /\ nilDeref' = TRUE
            /\ UNCHANGED <<m, accSess, aRet, apc>>
       ELSE /\ m' = a
            /\ accSess' = [accSess EXCEPT ![a] = session]
            /\ apc' = [apc EXCEPT ![a] = "accepting"]
            /\ UNCHANGED <<aRet, nilDeref>>
    /\ UNCHANGED <<state, acceptErr, session, url, sessCloses, closeVars,
                   connVars, aStart, rPending, rpc>>

\* Accept, the return of c.session.Accept(): a stream is handed to the
\* caller; a failure flips the client to Broken and dispatches reconnect.
AcceptSessionReturn(a) ==
    /\ ~Panicked
    /\ apc[a] = "accepting"
    /\ \E r \in SessionAcceptResults(accSess[a]) :
         IF r = "stream"
         THEN /\ aRet' = [aRet EXCEPT ![a] =
                           [kind |-> "stream", sess |-> accSess[a],
                            current |-> /\ accSess[a] = session
                                        /\ sessCloses[accSess[a]] = 0]]
              /\ UNCHANGED <<state, acceptErr, rPending>>
         ELSE /\ state' = stateBroken
              /\ acceptErr' = ErrClientReconnecting
              /\ rPending' = rPending + 1
              /\ aRet' = [aRet EXCEPT ![a] = [NoRet EXCEPT !.kind = ErrClientReconnecting]]
    /\ apc' = [apc EXCEPT ![a] = "idle"]
    /\ accSess' = [accSess EXCEPT ![a] = 0]
    /\ m' = IF m = a THEN "free" ELSE m
    /\ UNCHANGED <<session, url, sessCloses, closeVars, connVars, aStart, rpc, nilDeref>>

\* ------------------------------------------------------------------- Close

\* Close, the select on c.closed: already closed returns nil, otherwise the
\* default branch is taken.
CloseSelect(c) ==
    /\ ~Panicked
    /\ cpc[c] = "idle"
    /\ IF closed >= 1
       THEN closeReturned' = TRUE /\ cpc' = cpc
       ELSE closeReturned' = closeReturned /\ cpc' = [cpc EXCEPT ![c] = "default"]
    /\ UNCHANGED <<clientVars, acceptVars, connVars, closed, cleanup, rPending, rpc, nilDeref>>

\* Close, the default branch: close(c.closed), which panics on a channel
\* that is already closed, then the cleanup goroutine is started.
CloseFire(c) ==
    /\ ~Panicked
    /\ cpc[c] = "default"
    /\ closed' = closed + 1
    /\ IF closed = 0
       THEN /\ cleanup' = "pending"
            /\ closeReturned' = TRUE
            /\ cpc' = [cpc EXCEPT ![c] = "idle"]
       ELSE UNCHANGED <<cleanup, closeReturned, cpc>>
    /\ UNCHANGED <<clientVars, acceptVars, connVars, rPending, rpc, nilDeref>>

\* The goroutine of Close: under c.m, store ErrClientClosed and close the
\* current session.
CleanupRun ==
    /\ ~Panicked
    /\ cleanup = "pending"
    /\ m = "free"
    /\ cleanup' = "done"
    /\ acceptErr' = ErrClientClosed
    /\ IF session = 0
       THEN nilDeref' = TRUE /\ UNCHANGED sessCloses
       ELSE /\ sessCloses' = [sessCloses EXCEPT ![session] = @ + 1]
            /\ UNCHANGED nilDeref
    /\ UNCHANGED <<m, state, session, url, acceptVars, connVars, closed, cpc,
                   closeReturned, rPending, rpc>>

\* --------------------------------------------------------------- reconnect

\* reconnect, c.m.Lock(): the goroutine started by Accept takes the mutex and
\* enters connectWithRetry.
ReconnectLock ==
    /\ ~Panicked
    /\ rPending > 0
    /\ rpc = "idle"
    /\ m = "free"
    /\ m' = "reconnect"
    /\ rPending' = rPending - 1
    /\ rpc' = "token"
    /\ UNCHANGED <<state, acceptErr, session, url, sessCloses, acceptVars,
                   closeVars, connVars, nilDeref>>

\* ConnectToken without the util.IsTokenUsable test: the configurer is
\* called on every invocation.
ConnectToken_AlwaysRefresh ==
    /\ ~Panicked
    /\ rpc = "token"
    /\ \/ /\ cfgFailed' = TRUE
          /\ connErr' = ErrRetryFailed
          /\ rpc' = "ret"
          /\ UNCHANGED <<usable, cfg>>
       \/ /\ cfg' = (cfg + 1) % NumCfg
          /\ usable' \in BOOLEAN
          /\ rpc' = "dial"
          /\ UNCHANGED <<connErr, cfgFailed>>
    /\ UNCHANGED <<clientVars, acceptVars, closeVars, dialSeq, conn, connStatus,
                   elapsed, backoffAt, currentDelay, dials, connUrl, rPending,
                   nilDeref>>

\* connectWithRetry, the token test: an unusable token pulls a configuration
\* from the configurer; its failure ends the invocation with ErrRetryFailed.
ConnectToken ==
    /\ ~Panicked
    /\ rpc = "token"
    /\ IF usable
       THEN rpc' = "dial" /\ UNCHANGED <<usable, cfg, connErr, cfgFailed>>
       ELSE \/ /\ cfgFailed' = TRUE
               /\ connErr' = ErrRetryFailed
               /\ rpc' = "ret"
               /\ UNCHANGED <<usable, cfg>>
            \/ /\ cfg' = (cfg + 1) % NumCfg
               /\ usable' \in BOOLEAN
               /\ rpc' = "dial"
               /\ UNCHANGED <<connErr, cfgFailed>>
    /\ UNCHANGED <<clientVars, acceptVars, closeVars, dialSeq, conn, connStatus,
                   elapsed, backoffAt, currentDelay, dials, connUrl, rPending,
                   nilDeref>>

\* connectWithRetry, the initial attempt: success returns the transport, a
\* retryable failure enters retryConn, 401 is ErrAuthFailed and any other
\* failure ErrRetryFailed.
ConnectDial ==
    /\ ~Panicked
    /\ rpc = "dial"
    /\ dials' = dials + 1
    /\ \E o \in DialOutcomes :
         /\ o.ok => dialSeq < MaxSessions
         /\ connStatus' = o.status
         /\ IF o.ok
            THEN /\ dialSeq' = dialSeq + 1
                 /\ conn' = dialSeq + 1
                 /\ connUrl' = dialSeq + 1
                 /\ connErr' = ErrNil
                 /\ rpc' = "ret"
                 /\ UNCHANGED <<elapsed, backoffAt, currentDelay>>
            ELSE IF shouldRetry(o.status)
            THEN /\ rpc' = "retry"
                 /\ currentDelay' = InitialDelay
                 /\ elapsed' = 0
                 /\ backoffAt' = InitialDelay
                 /\ UNCHANGED <<dialSeq, conn, connUrl, connErr>>
            ELSE /\ connErr' = IF isAuthError(o.status) THEN ErrAuthFailed ELSE ErrRetryFailed
                 /\ rpc' = "ret"
                 /\ UNCHANGED <<dialSeq, conn, connUrl, elapsed, backoffAt, currentDelay>>
    /\ UNCHANGED <<clientVars, acceptVars, closeVars, usable, cfg, cfgFailed,
                   rPending, nilDeref>>

\* retryConn without the maxTimer case: the budget never ends the loop.
RetryTimeout_NoMaxTimer ==
    /\ ~Panicked
    /\ rpc = "retry"
    /\ FALSE
    /\ UNCHANGED vars

\* retryConn, case <-maxTimer: the budget has elapsed.
RetryTimeout ==
    /\ ~Panicked
    /\ rpc = "retry"
    /\ elapsed >= MaxElapsedTime
    /\ connErr' = ErrRetryTimedOut
    /\ connStatus' = 0
    /\ rpc' = "ret"
    /\ elapsed' = 0 /\ backoffAt' = 0 /\ currentDelay' = 0
    /\ UNCHANGED <<clientVars, acceptVars, closeVars, dialSeq, usable, cfg, conn,
                   dials, connUrl, cfgFailed, rPending, nilDeref>>

\* retryConn, case <-backoff: dial again; success returns, a failure that is
\* not retryable is ErrRetryFailed, otherwise the delay grows and the timer
\* is rearmed.
RetryDial ==
    /\ ~Panicked
    /\ rpc = "retry"
    /\ elapsed >= backoffAt
    /\ dials' = dials + 1
    /\ \E o \in DialOutcomes :
         /\ o.ok => dialSeq < MaxSessions
         /\ connStatus' = o.status
         /\ IF o.ok
            THEN /\ dialSeq' = dialSeq + 1
                 /\ conn' = dialSeq + 1
                 /\ connUrl' = dialSeq + 1
                 /\ connErr' = ErrNil
                 /\ rpc' = "ret"
                 /\ elapsed' = 0 /\ backoffAt' = 0 /\ currentDelay' = 0
            ELSE IF ~shouldRetry(o.status)
            THEN /\ connErr' = ErrRetryFailed
                 /\ rpc' = "ret"
                 /\ elapsed' = 0 /\ backoffAt' = 0 /\ currentDelay' = 0
                 /\ UNCHANGED <<dialSeq, conn, connUrl>>
            ELSE /\ currentDelay' = nextDelay(currentDelay)
                 /\ backoffAt' = elapsed + nextDelay(currentDelay)
                 /\ UNCHANGED <<dialSeq, conn, connUrl, connErr, rpc, elapsed>>
    /\ UNCHANGED <<clientVars, acceptVars, closeVars, usable, cfg, cfgFailed,
                   rPending, nilDeref>>

\* Time passes while retryConn waits in its select.
Tick ==
    /\ ~Panicked
    /\ rpc = "retry"
    /\ elapsed < MaxElapsedTime + Slack
    /\ elapsed' = elapsed + 1
    /\ UNCHANGED <<clientVars, acceptVars, closeVars, dialSeq, usable, cfg, conn,
                   connErr, connStatus, backoffAt, currentDelay, dials, connUrl,
                   cfgFailed, rPending, rpc, nilDeref>>

\* reconnect, err != nil: store ErrRetryFailed and return (deferred Unlock).
ReconnectFail ==
    /\ ~Panicked
    /\ rpc = "ret"
    /\ connErr # ErrNil
    /\ acceptErr' = ErrRetryFailed
    /\ m' = "free"
    /\ rpc' = "idle"
    /\ connErr' = ErrNil
    /\ connStatus' = 0
    /\ dials' = 0
    /\ cfgFailed' = FALSE
    /\ UNCHANGED <<state, session, url, sessCloses, acceptVars, closeVars,
                   dialSeq, usable, cfg, conn, connUrl, elapsed, backoffAt,
                   currentDelay, rPending, nilDeref>>

\* reconnect, the success path up to c.session = nil: the previous session
\* is closed and dropped.
ReconnectCloseOld ==
    /\ ~Panicked
    /\ rpc = "ret"
    /\ connErr = ErrNil
    /\ IF session # 0
       THEN /\ sessCloses' = [sessCloses EXCEPT ![session] = @ + 1]
            /\ session' = 0
       ELSE UNCHANGED <<sessCloses, session>>
    /\ rpc' = "install"
    /\ UNCHANGED <<m, state, acceptErr, url, acceptVars, closeVars, connVars,
                   rPending, nilDeref>>

\* ReconnectInstall without c.url.Store(url): the old URL stays.
ReconnectInstall_NoUrlStore ==
    /\ ~Panicked
    /\ rpc = "install"
    /\ session' = conn
    /\ url' = url
    /\ state' = stateRunning
    /\ acceptErr' = ErrNil
    /\ m' = "free"
    /\ rpc' = "idle"
    /\ conn' = 0
    /\ connUrl' = 0
    /\ connStatus' = 0
    /\ dials' = 0
    /\ cfgFailed' = FALSE
    /\ UNCHANGED <<sessCloses, acceptVars, closeVars, dialSeq, usable, cfg,
                   connErr, elapsed, backoffAt, currentDelay, rPending, nilDeref>>

\* ReconnectInstall without c.state = stateRunning: the state stays Broken.
ReconnectInstall_NoStateRunning ==
    /\ ~Panicked
    /\ rpc = "install"
    /\ session' = conn
    /\ url' = connUrl
    /\ state' = state
    /\ acceptErr' = ErrNil
    /\ m' = "free"
    /\ rpc' = "idle"
    /\ conn' = 0
    /\ connUrl' = 0
    /\ connStatus' = 0
    /\ dials' = 0
    /\ cfgFailed' = FALSE
    /\ UNCHANGED <<sessCloses, acceptVars, closeVars, dialSeq, usable, cfg,
                   connErr, elapsed, backoffAt, currentDelay, rPending, nilDeref>>

\* reconnect, the install: new session, URL, stateRunning, acceptErr = nil,
\* then the deferred Unlock.
ReconnectInstall ==
    /\ ~Panicked
    /\ rpc = "install"
    /\ session' = conn
    /\ url' = connUrl
    /\ state' = stateRunning
    /\ acceptErr' = ErrNil
    /\ m' = "free"
    /\ rpc' = "idle"
    /\ conn' = 0
    /\ connUrl' = 0
    /\ connStatus' = 0
    /\ dials' = 0
    /\ cfgFailed' = FALSE
    /\ UNCHANGED <<sessCloses, acceptVars, closeVars, dialSeq, usable, cfg,
                   connErr, elapsed, backoffAt, currentDelay, rPending, nilDeref>>

\* Addr: c.session is read without c.m and the session's Addr() is called
\* through it; the read races with reconnect's writes, so it may see the nil
\* stored between the close of the old session and the install of the new.
Addr ==
    /\ ~Panicked
    /\ nilDeref' = (session = 0)
    /\ UNCHANGED <<clientVars, acceptVars, closeVars, connVars, rPending, rpc>>

\* The token of the working configuration expires.
TokenExpire ==
    /\ ~Panicked
    /\ usable
    /\ usable' = FALSE
    /\ UNCHANGED <<clientVars, acceptVars, closeVars, dialSeq, cfg, conn, connErr,
                   connStatus, elapsed, backoffAt, currentDelay, dials, connUrl,
                   cfgFailed, rPending, rpc, nilDeref>>

\* ----------------------------------------------------------- specification

Next ==
    \/ \E a \in Accepters : AcceptStart(a)
    \/ \E a \in Accepters : AcceptLock(a)
    \/ \E a \in Accepters : AcceptSessionReturn(a)
    \/ \E c \in Closers : CloseSelect(c)
    \/ \E c \in Closers : CloseFire(c)
    \/ CleanupRun
    \/ ReconnectLock
    \/ ConnectToken
    \/ ConnectDial
    \/ RetryTimeout
    \/ RetryDial
    \/ Tick
    \/ ReconnectFail
    \/ ReconnectCloseOld
    \/ ReconnectInstall
    \/ Addr
    \/ TokenExpire

Spec == Init /\ [][Next]_vars

\* The program with one caller of Accept and one caller of Close: the
\* executions the progress properties are checked on.
LiveAccepters == {"a1"}

LiveClosers == {"c1"}

LiveNext ==
    \/ \E a \in LiveAccepters : AcceptStart(a)
    \/ \E a \in LiveAccepters : AcceptLock(a)
    \/ \E a \in LiveAccepters : AcceptSessionReturn(a)
    \/ \E c \in LiveClosers : CloseSelect(c)
    \/ \E c \in LiveClosers : CloseFire(c)
    \/ CleanupRun
    \/ ReconnectLock
    \/ ConnectToken
    \/ ConnectDial
    \/ RetryTimeout
    \/ RetryDial
    \/ Tick
    \/ ReconnectFail
    \/ ReconnectCloseOld
    \/ ReconnectInstall
    \/ Addr
    \/ TokenExpire

\* Scheduling the Go runtime guarantees: a runnable goroutine runs, a free
\* mutex is handed to a waiter, a fired timer is seen by a waiting select
\* (which picks among ready cases at random), a Dial returns, time passes.
\* Nothing obliges callers to call Accept or Close, the token to expire, or
\* a session to deliver a stream or fail.
Fairness ==
    /\ \A a \in LiveAccepters : WF_vars(AcceptLock(a))
    /\ \A c \in LiveClosers : WF_vars(CloseFire(c))
    /\ SF_vars(CleanupRun)
    /\ SF_vars(ReconnectLock)
    /\ WF_vars(ConnectToken)
    /\ WF_vars(ConnectDial)
    /\ WF_vars(RetryTimeout)
    /\ WF_vars(RetryDial)
    /\ WF_vars(Tick)
    /\ WF_vars(ReconnectFail)
    /\ WF_vars(ReconnectCloseOld)
    /\ WF_vars(ReconnectInstall)

FairSpec == Init /\ [][LiveNext]_vars /\ Fairness

TypeOK ==
    /\ m \in {"free", "reconnect"} \cup Accepters
    /\ state \in {stateRunning, stateBroken, stateClosed}
    /\ acceptErr \in {ErrNil, ErrClientClosed, ErrClientReconnecting, ErrRetryFailed}
    /\ session \in 0..MaxSessions
    /\ url \in 1..MaxSessions
    /\ closed \in 0..2
    /\ dialSeq \in 1..MaxSessions
    /\ rPending \in 0..1
    /\ rpc \in {"idle", "token", "dial", "retry", "ret", "install"}
    /\ connErr \in {ErrNil, ErrRetryFailed, ErrRetryTimedOut, ErrAuthFailed}
    /\ elapsed \in 0..(MaxElapsedTime + Slack)
    /\ dials \in 0..(MaxElapsedTime + Slack + 1)
    /\ connUrl \in 0..MaxSessions
    /\ cfgFailed \in BOOLEAN
    /\ nilDeref \in BOOLEAN

\* ------------------------------------------------------------------ claims

\* The caller's last Accept has returned.
Returned(a) == apc[a] = "idle" /\ aRet[a].kind # "none"

\* C1: after Accept has detected a session failure (state Broken, reconnect
\* dispatched), every Accept call that starts before the repair completes
\* returns the Reconnecting error (read on a client nobody has closed).
C1_ReconnectingUntilRepaired ==
    \A a \in Accepters :
        (Returned(a) /\ aStart[a].inRepair /\ closed = 0)
            => aRet[a].kind = ErrClientReconnecting

\* C2: Accept never blocks waiting for repair: no Accept call is ever left
\* waiting for c.m while the reconnect goroutine holds it through its
\* connect / backoff loop.
C2_AcceptNeverWaitsForRepair ==
    \A a \in Accepters : ~(apc[a] = "lock" /\ m = "reconnect")

\* C3: after a reconnect has failed (state Broken, stored error
\* ErrRetryFailed), an Accept call started later on the not closed client
\* dispatches a new repair by the time it returns.
C3_FailedRepairRetriedByAccept ==
    [][\A a \in Accepters :
          ( /\ aStart[a].afterFail
            /\ apc[a] = "lock" /\ apc'[a] = "idle"
            /\ closed = 0 )
          => rPending' = rPending + 1]_vars

\* C4: once Close has signalled shutdown the lifecycle state only ever moves
\* to Closed: no other transition (Broken to Running by a reconnect, Running
\* to Broken by an Accept) occurs.
C4_ClosedIsTerminal ==
    [][closed >= 1 => (state' = state \/ state' = stateClosed)]_vars

\* C5: a repair in flight when Close is called installs no new session and
\* no new public URL once the shutdown signal has fired.
C5_NoInstallAfterShutdown ==
    [][closed >= 1 => (url' = url /\ (session' = session \/ session' = 0))]_vars

\* C6: for any number of Close calls, sequential or concurrent, the closed
\* channel is closed exactly once, never twice.
C6_ShutdownSignalledOnce == closed <= 1

\* C7: an Accept call that starts after a Close call has returned yields
\* ErrClientClosed, whatever the lifecycle state and the stored error are.
C7_ClosedAfterClose ==
    \A a \in Accepters :
        aStart[a].afterClose => (apc[a] = "idle" /\ aRet[a].kind = ErrClientClosed)

\* C7 witness: the client was resurrected by a late reconnect (Running, no
\* stored error, cleanup long done) and the Accept call still got
\* ErrClientClosed.
C7_Witness ==
    \E a \in Accepters :
        /\ aStart[a].afterClose
        /\ aRet[a].kind = ErrClientClosed
        /\ cleanup = "done"
        /\ state = stateRunning
        /\ acceptErr = ErrNil

\* C8: every superseded session has had its Close invoked exactly once over
\* the whole run, counting reconnect's close and the cleanup goroutine's.
C8_OldSessionClosedOnce ==
    \A s \in 1..MaxSessions :
        (session # 0 /\ s < session) => sessCloses[s] = 1

C10_Status401IsAuthFailed ==
    (rpc = "ret" /\ connStatus = 401) => connErr = ErrAuthFailed

\* C11: the retry loop attempts no dial after its budget has run out: once
\* more than MaxElapsedTime has passed since the timers were started, no
\* further Dial is made.
C11_NoDialAfterBudget ==
    [][(rpc = "retry" /\ elapsed > MaxElapsedTime) => dials' = dials]_vars

\* C12: when the first dial of a connect invocation is answered 401, the
\* invocation has ended at once with ErrAuthFailed: one dial, no retry loop.
C12_First401Immediate ==
    (dials = 1 /\ connStatus = 401) => (rpc = "ret" /\ connErr = ErrAuthFailed)

\* C12 witness: connectWithRetry has returned after a single dial answered
\* 401.
C12_Witness ==
    rpc = "ret" /\ dials = 1 /\ connStatus = 401 /\ connErr = ErrAuthFailed

\* C13: connect returns the URL reported by the dial that produced the
\* transport it returns, and whenever c.m is free the stored URL is that of
\* the dial that created the installed session.
C13_UrlOfCurrentSession ==
    /\ (rpc = "ret" /\ connErr = ErrNil) => (conn # 0 /\ connUrl = conn)
    /\ m = "free" => (session # 0 /\ url = session)

\* C13 witness: the first dial failed retryably, a later dial of the retry
\* loop succeeded, and connect returned that dial's transport and URL.
C13_Witness ==
    rpc = "ret" /\ connErr = ErrNil /\ dials >= 2 /\ conn = 2 /\ connUrl = 2

\* C14: when a repair fails, the error stored for later Accept calls is the
\* error connectWithRetry reported for that attempt.
C14_StoredErrorIsConnectorError ==
    [][(rpc = "ret" /\ connErr # ErrNil /\ rpc' = "idle")
          => acceptErr' = connErr]_vars

\* C15: at most one repair is in flight at any time, counting reconnect
\* goroutines waiting for c.m and the one holding it.
C15_OneRepairInFlight ==
    rPending + (IF rpc # "idle" THEN 1 ELSE 0) <= 1

\* C15 witness: both Accept callers have returned Reconnecting for the same
\* session failure while a single repair is dispatched.
C15_Witness ==
    /\ rPending = 1
    /\ \A a \in Accepters : Returned(a) /\ aRet[a].kind = ErrClientReconnecting

\* C18: the configurer is called only when the token fails the freshness
\* test, and when it fails connect ends at once with ErrRetryFailed: no dial
\* is made, the retry loop is not entered, the working configuration stays.
C18_ConfigurerOnlyWhenStale ==
    [][ /\ (cfg' # cfg \/ (cfgFailed' /\ ~cfgFailed)) => (~usable /\ rpc = "token")
        /\ (cfgFailed' /\ ~cfgFailed) =>
              (cfg' = cfg /\ usable' = usable /\ connErr' = ErrRetryFailed)
        /\ cfgFailed' => (rpc' = "ret" /\ dials' = 0) ]_vars

\* C18 witness: the configurer failed and connect has returned ErrRetryFailed
\* without a dial.
C18_Witness ==
    cfgFailed /\ rpc = "ret" /\ dials = 0 /\ connErr = ErrRetryFailed

\* C19: the session reference is non-nil whenever c.m is free, and no
\* method is ever called through a nil session (by the cleanup goroutine,
\* Accept or Addr).
C19_NoNilSessionDeref ==
    /\ m = "free" => session # 0
    /\ ~nilDeref

\* C20: whenever c.m is free and the state is Broken the stored error is
\* non-nil, and no Accept call returns neither a stream nor an error.
C20_BrokenHasError ==
    /\ (m = "free" /\ state = stateBroken) => acceptErr # ErrNil
    /\ \A a \in Accepters : aRet[a].kind # ErrNil

\* C20 witness: on a Broken client whose repair failed, an Accept call has
\* returned the stored ErrRetryFailed.
C20_Witness ==
    /\ m = "free"
    /\ state = stateBroken
    /\ \E a \in Accepters : Returned(a) /\ aRet[a].kind = ErrRetryFailed

\* C16: after Close has dispatched its cleanup, the cleanup goroutine
\* eventually runs (stores ErrClientClosed and closes the current session),
\* also while a caller is blocked in Accept on a session that delivers
\* nothing.
C16_CleanupEventuallyRuns ==
    (cleanup = "pending") ~> (cleanup = "done" \/ Panicked)

\* C17: every connect invocation terminates: from any point inside
\* connectWithRetry or retryConn the invocation eventually returns.
C17_ConnectTerminates ==
    (rpc \in {"token", "dial", "retry"}) ~> (rpc = "ret" \/ Panicked)

\* C17 witness: an invocation that went through the retry loop until the
\* budget lapsed has returned ErrRetryTimedOut.
C17_Witness ==
    rpc = "ret" /\ connErr = ErrRetryTimedOut /\ dials >= 2

====
